---------------------------- MODULE Spec2Model ----------------------------
(***************************************************************************)
(* Scene skill: scene resolution (SceneSkill.get_scenes over the device   *)
(* registry snapshot, SceneDevice.from_global_device and its validator)   *)
(* and command dispatch (process_request, _handle_scene_apply,            *)
(* _send_mqtt_commands, the response send).                               *)
(*                                                                         *)
(* A Python str whose characters the code reads (scene names, topics,     *)
(* payloads, dict keys, JSON text) is the sequence of its character       *)
(* codes.  Room names and response texts, which the code only compares    *)
(* and passes on, are TLA+ strings.  An Optional value is a set of at     *)
(* most one element: None is {} and a present value v is {v}.  A Python   *)
(* dict is a function on its keys.  A call that may raise returns a       *)
(* record with ok |-> FALSE and the exception class.                      *)
(***************************************************************************)
EXTENDS Integers, Sequences, FiniteSets, TLC

\* ------------------------------------------------------------------ bounds
\* Largest number of records in a device snapshot.
MaxRecords == 2
\* Longest action list of a round trip.
MaxActions == 2

\* ------------------------------------------------------- program constants
\* models.py: MAX_TOPIC_LENGTH = 128
MAX_TOPIC_LENGTH == 128

\* ------------------------------------------------------------- Python data
None == {}
Some(v) == {v}
The(o) == CHOOSE v \in o : TRUE

Range(s) == {s[i] : i \in DOMAIN s}

\* Variant of lower: no case folding.
lower_identity(s) == s

\* str.lower() on ASCII text: 'A'..'Z' (65..90) map to 'a'..'z', the rest is
\* unchanged.
lower(s) == [i \in DOMAIN s |-> IF s[i] \in 65..90 THEN s[i] + 32 ELSE s[i]]

\* The dict keys the code reads: "topic", "payload", "device_actions".
TOPIC == <<116, 111, 112, 105, 99>>
PAYLOAD == <<112, 97, 121, 108, 111, 97, 100>>
DEVICE_ACTIONS == <<100, 101, 118, 105, 99, 101, 95, 97, 99, 116, 105, 111, 110, 115>>

\* The default payload "ON".
ON == <<79, 78>>

\* ------------------------------------------------------------- JSON values
\* A JSON value as Python holds it, tagged with its Python type: a str (its
\* characters), a list (its items), a dict (a function from keys, which are
\* strings, to values), an int or float (the characters of its literal), a
\* bool and None.
JStr(chars) == [type |-> "str", val |-> chars]
JList(items) == [type |-> "list", val |-> items]
JDict(items) == [type |-> "dict", val |-> items]
JNumber(chars) == [type |-> "number", val |-> chars]
JTrue == [type |-> "bool", val |-> <<116, 114, 117, 101>>]
JFalse == [type |-> "bool", val |-> <<102, 97, 108, 115, 101>>]
JNull == [type |-> "NoneType", val |-> <<>>]

\* d[key] = value added to the dict d (a later value replaces an earlier one).
DictSet(d, key, value) == (key :> value) @@ d

\* --------------------------------------------------------------- json.loads
\* A result of the scanner: the value and the position after it, or a
\* failure (json.JSONDecodeError).
JsonFail == [ok |-> FALSE]
JsonOk(v, next) == [ok |-> TRUE, val |-> v, next |-> next]

\* json.decoder.WHITESPACE: space, tab, LF, CR.
RECURSIVE SkipWs(_, _)
SkipWs(s, i) == IF i <= Len(s) /\ s[i] \in {32, 9, 10, 13} THEN SkipWs(s, i + 1) ELSE i

RECURSIVE SkipDigits(_, _)
SkipDigits(s, i) == IF i <= Len(s) /\ s[i] \in 48..57 THEN SkipDigits(s, i + 1) ELSE i

StartsWith(s, i, lit) ==
    i + Len(lit) - 1 <= Len(s) /\ SubSeq(s, i, i + Len(lit) - 1) = lit

\* json.scanner.NUMBER_RE, (-?(?:0|[1-9][0-9]*))(\.[0-9]+)?([eE][-+]?[0-9]+)?,
\* matched at position i: the position after the match, or i when there is
\* none.  Each group is matched from where the one before it ended.
NumberEnd(s, i) ==
    LET Exponent(frac_end, digits) ==
            IF /\ frac_end <= Len(s)
               /\ s[frac_end] \in {101, 69}
               /\ digits <= Len(s)
               /\ s[digits] \in 48..57
            THEN SkipDigits(s, digits) ELSE frac_end
        Sign(frac_end) ==
            Exponent(frac_end,
                     IF frac_end + 1 <= Len(s) /\ s[frac_end + 1] \in {43, 45}
                     THEN frac_end + 2 ELSE frac_end + 1)
        Fraction(int_end) ==
            IF int_end = i THEN i
            ELSE Sign(IF /\ int_end + 1 <= Len(s)
                         /\ s[int_end] = 46
                         /\ s[int_end + 1] \in 48..57
                      THEN SkipDigits(s, int_end + 1) ELSE int_end)
        Integer(d) ==
            Fraction(IF d > Len(s) THEN i
                     ELSE IF s[d] = 48 THEN d + 1
                     ELSE IF s[d] \in 49..57 THEN SkipDigits(s, d + 1)
                     ELSE i)
    IN  Integer(IF i <= Len(s) /\ s[i] = 45 THEN i + 1 ELSE i)

HexDigit(c) ==
    IF c \in 48..57 THEN c - 48
    ELSE IF c \in 97..102 THEN c - 87
    ELSE IF c \in 65..70 THEN c - 55
    ELSE -1

\* Variant of Unescape: \b, \f, \n, \r and \t stand for the letter.
Unescape_keeps_letter(c) ==
    IF c \in {34, 92, 47, 98, 102, 110, 114, 116} THEN c ELSE -1

\* json.decoder.BACKSLASH: the character an escape \c stands for, -1 when
\* there is no such escape.
Unescape(c) ==
    IF c \in {34, 92, 47} THEN c
    ELSE IF c = 98 THEN 8
    ELSE IF c = 102 THEN 12
    ELSE IF c = 110 THEN 10
    ELSE IF c = 114 THEN 13
    ELSE IF c = 116 THEN 9
    ELSE -1

\* The number the four hex digits s[i..i+3] stand for.
Hex4(s, i) ==
    4096 * HexDigit(s[i]) + 256 * HexDigit(s[i + 1])
    + 16 * HexDigit(s[i + 2]) + HexDigit(s[i + 3])

\* s[i..i+3] are four hex digits.
IsHex4(s, i) == i + 3 <= Len(s) /\ \A k \in 0..3 : HexDigit(s[i + k]) >= 0

RECURSIVE scanstring(_, _, _)
\* json.decoder.scanstring (strict): s[i] is the first character after the
\* opening quote, acc the characters read so far.  \uXXXX stands for the code
\* XXXX; a high surrogate followed by the escape of a low surrogate stands,
\* with it, for one character above 0xFFFF.
scanstring(s, i, acc) ==
    IF i > Len(s) THEN JsonFail
    ELSE IF s[i] = 34 THEN JsonOk(acc, i + 1)
    ELSE IF s[i] < 32 THEN JsonFail
    ELSE IF s[i] # 92 THEN scanstring(s, i + 1, Append(acc, s[i]))
    ELSE IF i + 1 > Len(s) THEN JsonFail
    ELSE IF s[i + 1] = 117
    THEN IF ~IsHex4(s, i + 2) THEN JsonFail
         ELSE IF /\ Hex4(s, i + 2) \in 55296..56319
                 /\ i + 7 <= Len(s)
                 /\ s[i + 6] = 92
                 /\ s[i + 7] = 117
         THEN IF ~IsHex4(s, i + 8) THEN JsonFail
              ELSE IF Hex4(s, i + 8) \in 56320..57343
              THEN scanstring(s, i + 12,
                              Append(acc, 65536 + 1024 * (Hex4(s, i + 2) - 55296)
                                          + (Hex4(s, i + 8) - 56320)))
              ELSE scanstring(s, i + 6, Append(acc, Hex4(s, i + 2)))
         ELSE scanstring(s, i + 6, Append(acc, Hex4(s, i + 2)))
    ELSE IF Unescape(s[i + 1]) < 0 THEN JsonFail
    ELSE scanstring(s, i + 2, Append(acc, Unescape(s[i + 1])))

RECURSIVE scan_once(_, _)
RECURSIVE JSONArray(_, _, _)
RECURSIVE JSONObject(_, _, _)

\* json.decoder.JSONArray: s[i] is where the next item starts, acc the items
\* read so far.
JSONArray(s, i, acc) ==
    LET AfterItem(v, j) ==
            IF j > Len(s) THEN JsonFail
            ELSE IF s[j] = 93 THEN JsonOk(JList(Append(acc, v.val)), j + 1)
            ELSE IF s[j] # 44 THEN JsonFail
            ELSE JSONArray(s, SkipWs(s, j + 1), Append(acc, v.val))
        Item(v) == IF ~v.ok THEN JsonFail ELSE AfterItem(v, SkipWs(s, v.next))
    IN  Item(scan_once(s, i))

\* json.decoder.JSONObject: s[i] is where the next key starts, acc the dict
\* read so far.
JSONObject(s, i, acc) ==
    LET AfterPair(k, v, j) ==
            IF j > Len(s) THEN JsonFail
            ELSE IF s[j] = 125 THEN JsonOk(JDict(DictSet(acc, k.val, v.val)), j + 1)
            ELSE IF s[j] # 44 THEN JsonFail
            ELSE JSONObject(s, SkipWs(s, j + 1), DictSet(acc, k.val, v.val))
        Pair(k, v) == IF ~v.ok THEN JsonFail ELSE AfterPair(k, v, SkipWs(s, v.next))
        Colon(k, c) ==
            IF c > Len(s) \/ s[c] # 58 THEN JsonFail
            ELSE Pair(k, scan_once(s, SkipWs(s, c + 1)))
        Key(k) == IF ~k.ok THEN JsonFail ELSE Colon(k, SkipWs(s, k.next))
    IN  IF i > Len(s) \/ s[i] # 34 THEN JsonFail
        ELSE Key(scanstring(s, i + 1, <<>>))

\* json.scanner.py_make_scanner._scan_once at position i.
scan_once(s, i) ==
    LET String(r) == IF r.ok THEN JsonOk(JStr(r.val), r.next) ELSE JsonFail
        Object(j) ==
            IF j <= Len(s) /\ s[j] = 125 THEN JsonOk(JDict(<<>>), j + 1)
            ELSE JSONObject(s, j, <<>>)
        Array(j) ==
            IF j <= Len(s) /\ s[j] = 93 THEN JsonOk(JList(<<>>), j + 1)
            ELSE JSONArray(s, j, <<>>)
        Number(end) ==
            IF end > i THEN JsonOk(JNumber(SubSeq(s, i, end - 1)), end)
            ELSE IF StartsWith(s, i, <<78, 97, 78>>)
            THEN JsonOk(JNumber(<<78, 97, 78>>), i + 3)
            ELSE IF StartsWith(s, i, <<73, 110, 102, 105, 110, 105, 116, 121>>)
            THEN JsonOk(JNumber(SubSeq(s, i, i + 7)), i + 8)
            ELSE IF StartsWith(s, i, <<45, 73, 110, 102, 105, 110, 105, 116, 121>>)
            THEN JsonOk(JNumber(SubSeq(s, i, i + 8)), i + 9)
            ELSE JsonFail
    IN  IF i > Len(s) THEN JsonFail
        ELSE IF s[i] = 34 THEN String(scanstring(s, i + 1, <<>>))
        ELSE IF s[i] = 123 THEN Object(SkipWs(s, i + 1))
        ELSE IF s[i] = 91 THEN Array(SkipWs(s, i + 1))
        ELSE IF StartsWith(s, i, <<110, 117, 108, 108>>) THEN JsonOk(JNull, i + 4)
        ELSE IF StartsWith(s, i, <<116, 114, 117, 101>>) THEN JsonOk(JTrue, i + 4)
        ELSE IF StartsWith(s, i, <<102, 97, 108, 115, 101>>) THEN JsonOk(JFalse, i + 5)
        ELSE Number(NumberEnd(s, i))

\* json.loads(s): the value, or a failure (json.JSONDecodeError) when s is
\* not one JSON document.
json_loads(s) ==
    LET Document(r) ==
            IF ~r.ok THEN JsonFail
            ELSE IF SkipWs(s, r.next) # Len(s) + 1 THEN JsonFail
            ELSE [ok |-> TRUE, val |-> r.val]
    IN  Document(scan_once(s, SkipWs(s, 1)))

\* --------------------------------------------------------------- json.dumps
\* The hex digit d (0..15) as json.encoder writes it, in lower case.
HexChar(d) == IF d < 10 THEN 48 + d ELSE 87 + d

\* '\u{0:04x}'.format(n)
EscapeU(n) ==
    <<92, 117, HexChar(n \div 4096), HexChar((n \div 256) % 16),
      HexChar((n \div 16) % 16), HexChar(n % 16)>>

\* json.encoder.py_encode_basestring_ascii, the replacement of one character:
\* ESCAPE_DCT for '"', '\' and the control characters with a short escape,
\* the character itself from ' ' to '~', \uXXXX for the others, as a
\* surrogate pair above 0xFFFF.
EscapeChar(c) ==
    IF c = 34 THEN <<92, 34>>
    ELSE IF c = 92 THEN <<92, 92>>
    ELSE IF c = 10 THEN <<92, 110>>
    ELSE IF c = 13 THEN <<92, 114>>
    ELSE IF c = 9 THEN <<92, 116>>
    ELSE IF c = 12 THEN <<92, 102>>
    ELSE IF c = 8 THEN <<92, 98>>
    ELSE IF c \in 32..126 THEN <<c>>
    ELSE IF c < 65536 THEN EscapeU(c)
    ELSE EscapeU(55296 + ((c - 65536) \div 1024))
         \o EscapeU(56320 + ((c - 65536) % 1024))

RECURSIVE EscapeFrom(_, _)
EscapeFrom(chars, i) ==
    IF i > Len(chars) THEN <<>>
    ELSE EscapeChar(chars[i]) \o EscapeFrom(chars, i + 1)

\* json.encoder.py_encode_basestring_ascii(s)
encode_basestring_ascii(chars) == <<34>> \o EscapeFrom(chars, 1) \o <<34>>

\* A Python dict as json.dumps reads it: the mapping d with its keys in
\* insertion order.
OrderedDict(keys, d) == [type |-> "dict", val |-> d, keys |-> keys]

RECURSIVE json_dumps(_)
RECURSIVE dumps_items(_, _)
RECURSIVE dumps_pairs(_, _, _)

\* The items of a list from item i on, separated by ", ".
dumps_items(items, i) ==
    IF i > Len(items) THEN <<>>
    ELSE (IF i > 1 THEN <<44, 32>> ELSE <<>>)
         \o json_dumps(items[i]) \o dumps_items(items, i + 1)

\* The pairs of a dict from key i of keys on: "key": value, separated by
\* ", ".
dumps_pairs(d, keys, i) ==
    IF i > Len(keys) THEN <<>>
    ELSE (IF i > 1 THEN <<44, 32>> ELSE <<>>)
         \o encode_basestring_ascii(keys[i]) \o <<58, 32>>
         \o json_dumps(d[keys[i]]) \o dumps_pairs(d, keys, i + 1)

\* json.dumps(v) with its defaults (ensure_ascii, separators ", " and ": ")
\* for a value made of str, list, dict, bool and None.
json_dumps(v) ==
    IF v.type = "str" THEN encode_basestring_ascii(v.val)
    ELSE IF v.type = "list" THEN <<91>> \o dumps_items(v.val, 1) \o <<93>>
    ELSE IF v.type = "dict"
    THEN <<123>> \o dumps_pairs(v.val, v.keys, 1) \o <<125>>
    ELSE IF v.type = "NoneType" THEN <<110, 117, 108, 108>>
    ELSE v.val

\* bool(v) of a JSON value: empty str, list and dict, zero, False and None
\* are falsy.
Truthy(v) ==
    IF v.type \in {"str", "list", "dict"} THEN DOMAIN v.val # {}
    ELSE IF v.type = "number"
    THEN \E i \in DOMAIN v.val :
            /\ v.val[i] \in (49..57) \cup {78, 73}
            /\ \A j \in 1..(i - 1) : v.val[j] \notin {101, 69}
    ELSE v.type = "bool" /\ v.val = <<116, 114, 117, 101>>

\* ---------------------------------------------------------------- models.py
\* The characters the class [\$#\+\s\0-\31] matches: '$' (36), '#' (35),
\* '+' (43), the range \0-\31, whose upper end is the octal escape
\* \31 = 25 = 0x19, and \s: the characters str.isspace() holds of (tab, LF,
\* VT, FF, CR, FS, GS, RS, US, space, and the Unicode spaces).
MQTT_TOPIC_REGEX ==
    {36, 35, 43} \cup (0..25) \cup {9, 10, 11, 12, 13, 28, 29, 30, 31, 32}
    \cup {133, 160, 5760, 8232, 8233, 8239, 8287, 12288} \cup (8192..8202)

\* Variant of RegexFindall: the class of the regex is without '$'.
RegexFindall_no_dollar(topic) ==
    \E i \in DOMAIN topic : topic[i] \in MQTT_TOPIC_REGEX \ {36}

\* MQTT_TOPIC_REGEX.findall(topic) is non-empty.
RegexFindall(topic) == \E i \in DOMAIN topic : topic[i] \in MQTT_TOPIC_REGEX

\* The check validate_device_actions makes on one action; "ok" when it passes.
ActionCheck(action) ==
    IF TOPIC \notin DOMAIN action THEN "missing topic"
    ELSE IF RegexFindall(action[TOPIC]) THEN "bad characters"
    ELSE IF Len(action[TOPIC]) > MAX_TOPIC_LENGTH THEN "too long"
    ELSE "ok"

\* Variant of validate_device_actions: only the first action is checked.
validate_first_only(value) ==
    IF value # <<>> /\ ActionCheck(value[1]) # "ok"
    THEN [ok |-> FALSE, exc |-> "ValidationError"]
    ELSE [ok |-> TRUE, value |-> value]

\* Variant of validate_device_actions: an action without a payload is
\* returned with the payload "ON".
validate_device_actions_defaults_payload(value) ==
    IF \E idx \in DOMAIN value : ActionCheck(value[idx]) # "ok"
    THEN [ok |-> FALSE, exc |-> "ValidationError"]
    ELSE [ok |-> TRUE,
          value |-> [idx \in DOMAIN value |->
                        IF PAYLOAD \in DOMAIN value[idx] THEN value[idx]
                        ELSE DictSet(value[idx], PAYLOAD, ON)]]

\* SceneDevice.validate_device_actions: raises on the first action that fails,
\* otherwise returns the value unchanged (no payload is filled in).
validate_device_actions(value) ==
    IF \E idx \in DOMAIN value : ActionCheck(value[idx]) # "ok"
    THEN [ok |-> FALSE, exc |-> "ValidationError"]
    ELSE [ok |-> TRUE, value |-> value]

\* The annotation device_actions: list[dict[str, str]]: every item is a dict
\* and every value in it a str.
IsListOfStrDicts(items) ==
    \A i \in DOMAIN items :
        /\ items[i].type = "dict"
        /\ \A k \in DOMAIN items[i].val : items[i].val[k].type = "str"

\* The validated field: the dicts with their str values.
StrDicts(items) ==
    [i \in DOMAIN items |-> [k \in DOMAIN items[i].val |-> items[i].val[k].val]]

\* SceneDevice(name=..., room=..., device_actions=...): pydantic checks the
\* field against its annotation, then runs the field validator; it raises
\* ValidationError when either fails.
SceneDevice(name, room, device_actions) ==
    IF ~IsListOfStrDicts(device_actions)
    THEN [ok |-> FALSE, exc |-> "ValidationError"]
    ELSE LET v == validate_device_actions(StrDicts(device_actions))
         IN  IF v.ok
             THEN [ok |-> TRUE,
                   scene |-> [name |-> name, room |-> room,
                              device_actions |-> v.value]]
             ELSE v

\* Variant of from_global_device: the check `if not device_actions_list` of
\* the decoded list is missing.
from_global_device_no_empty_check(global_device) ==
    LET attrs == IF global_device.device_attributes = None THEN <<>>
                 ELSE The(global_device.device_attributes)
        raw == IF DEVICE_ACTIONS \in DOMAIN attrs THEN attrs[DEVICE_ACTIONS]
               ELSE JNull
        Loaded(device_actions) ==
            IF ~device_actions.ok THEN [ok |-> FALSE, exc |-> "ValueError"]
            ELSE IF device_actions.val.type # "list"
            THEN [ok |-> FALSE, exc |-> "ValueError"]
            ELSE SceneDevice(global_device.name, global_device.room,
                             device_actions.val.val)
    IN  IF ~Truthy(raw) THEN [ok |-> FALSE, exc |-> "ValueError"]
        ELSE Loaded(IF raw.type = "str" THEN json_loads(raw.val)
                    ELSE [ok |-> TRUE, val |-> raw])

\* SceneDevice.from_global_device.
from_global_device(global_device) ==
    LET attrs == IF global_device.device_attributes = None THEN <<>>
                 ELSE The(global_device.device_attributes)
        raw == IF DEVICE_ACTIONS \in DOMAIN attrs THEN attrs[DEVICE_ACTIONS]
               ELSE JNull
        Loaded(device_actions) ==
            IF ~device_actions.ok THEN [ok |-> FALSE, exc |-> "ValueError"]
            ELSE IF device_actions.val.type # "list"
            THEN [ok |-> FALSE, exc |-> "ValueError"]
            ELSE IF device_actions.val.val = <<>>
            THEN [ok |-> FALSE, exc |-> "ValueError"]
            ELSE SceneDevice(global_device.name, global_device.room,
                             device_actions.val.val)
    IN  IF ~Truthy(raw) THEN [ok |-> FALSE, exc |-> "ValueError"]
        ELSE Loaded(IF raw.type = "str" THEN json_loads(raw.val)
                    ELSE [ok |-> TRUE, val |-> raw])

\* ----------------------------------------------------------- scene_skill.py
\* Variant of IsValueError: the handler catches the exact class only.
IsValueError_exact(exc) == exc = "ValueError"

\* `except ValueError`: pydantic's ValidationError and json's JSONDecodeError
\* are subclasses of ValueError.
IsValueError(exc) == exc \in {"ValueError", "ValidationError", "JSONDecodeError"}

\* get_scenes, line 122: the record is skipped by the room filter.
RoomFilterSkips(global_device, rooms) ==
    /\ rooms # None /\ The(rooms) # <<>>
    /\ global_device.room # None
    /\ The(global_device.room) \notin Range(The(rooms))

\* Variant of NameFilterSkips: `if scene_names:` instead of
\* `if scene_names is not None:`.
NameFilterSkips_truthy(global_device, scene_names) ==
    /\ scene_names # None /\ The(scene_names) # <<>>
    /\ lower(global_device.name) \notin
           {lower(The(scene_names)[i]) : i \in DOMAIN The(scene_names)}

\* get_scenes, lines 126-130: the record is skipped by the name filter.
NameFilterSkips(global_device, scene_names) ==
    /\ scene_names # None
    /\ LET normalized_scene_names ==
               [i \in DOMAIN The(scene_names) |-> lower(The(scene_names)[i])]
       IN  lower(global_device.name) \notin Range(normalized_scene_names)

\* Variant of get_scenes_iter: the converted scene is put at the front of
\* `scenes` instead of being appended.
get_scenes_iter_prepend(acc, global_device, rooms, scene_names) ==
    IF acc.raised THEN acc
    ELSE IF RoomFilterSkips(global_device, rooms) THEN acc
    ELSE IF NameFilterSkips(global_device, scene_names) THEN acc
    ELSE LET Try(r) ==
                 IF r.ok THEN [acc EXCEPT !.scenes = <<r.scene>> \o @]
                 ELSE IF IsValueError(r.exc) THEN acc
                 ELSE [acc EXCEPT !.raised = TRUE]
         IN  Try(from_global_device(global_device))

\* One iteration of the loop of get_scenes over acc = [scenes, raised].
get_scenes_iter(acc, global_device, rooms, scene_names) ==
    IF acc.raised THEN acc
    ELSE IF RoomFilterSkips(global_device, rooms) THEN acc
    ELSE IF NameFilterSkips(global_device, scene_names) THEN acc
    ELSE LET Try(r) ==
                 IF r.ok THEN [acc EXCEPT !.scenes = Append(@, r.scene)]
                 ELSE IF IsValueError(r.exc) THEN acc
                 ELSE [acc EXCEPT !.raised = TRUE]
         IN  Try(from_global_device(global_device))

RECURSIVE get_scenes_from(_, _, _, _, _)
get_scenes_from(acc, records, i, rooms, scene_names) ==
    IF i > Len(records) THEN acc
    ELSE get_scenes_from(get_scenes_iter(acc, records[i], rooms, scene_names),
                         records, i + 1, rooms, scene_names)

\* SceneSkill.get_scenes: [scenes |-> the list returned, raised |-> an
\* exception left the call].
get_scenes(records, rooms, scene_names) ==
    get_scenes_from([scenes |-> <<>>, raised |-> FALSE], records, 1,
                    rooms, scene_names)


\* IntentType members the model uses; SCENE_APPLY is the only supported one.
IntentTypes == {"SCENE_APPLY", "SYSTEM_HELP", "DEVICE_ON"}

\* self.intent_to_template after _load_templates: intent type -> template.
intent_to_template == [SCENE_APPLY |-> "apply.j2"]

\* _load_templates: template_mappings, in dict order.
template_mappings ==
    <<[intent_type |-> "SCENE_APPLY", template_name |-> "apply.j2"]>>

\* What self.template_env.get_template(name) does: it returns the template
\* ("found"), raises jinja2.TemplateNotFound, or raises another error, which
\* `except jinja2.TemplateNotFound` does not catch.
TemplateOutcomes == {"found", "TemplateNotFound", "TemplateSyntaxError"}

RECURSIVE load_templates_from(_, _, _, _)
\* The loop of _load_templates from mapping i on, and the check after it:
\* loaded is self.intent_to_template so far.
load_templates_from(env, i, loaded, failed_templates) ==
    IF i > Len(template_mappings)
    THEN IF failed_templates # <<>> THEN [ok |-> FALSE, exc |-> "RuntimeError"]
         ELSE [ok |-> TRUE, intent_to_template |-> loaded]
    ELSE LET intent_type == template_mappings[i].intent_type
             template_name == template_mappings[i].template_name
         IN  IF env[template_name] = "found"
             THEN load_templates_from(env, i + 1,
                                      (intent_type :> template_name) @@ loaded,
                                      failed_templates)
             ELSE IF env[template_name] = "TemplateNotFound"
             THEN load_templates_from(env, i + 1, loaded,
                                      Append(failed_templates, template_name))
             ELSE [ok |-> FALSE, exc |-> env[template_name]]

\* Variant of _load_templates: `if failed_templates: raise RuntimeError` is
\* missing.
load_templates_no_raise(env) ==
    LET Ignore(r) ==
            IF ~r.ok /\ r.exc = "RuntimeError"
            THEN [ok |-> TRUE, intent_to_template |-> <<>>]
            ELSE r
    IN  Ignore(load_templates_from(env, 1, <<>>, <<>>))

\* SceneSkill._load_templates, as __init__ calls it.
_load_templates(env) == load_templates_from(env, 1, <<>>, <<>>)

\* metadata.get("device_type") == "scene", with
\* metadata = getattr(entity, "metadata", {}) or {}.
IsSceneEntity(entity) ==
    /\ entity.metadata # None
    /\ "device_type" \in DOMAIN The(entity.metadata)
    /\ The(entity.metadata).device_type = "scene"

NormalizedValues(entities) == [i \in DOMAIN entities |-> entities[i].normalized_value]

\* Variant of find_parameters: parameters.rooms is passed to get_scenes even
\* when it holds the originating room.
find_parameters_filters_by_current_room(intent_type, classified_intent, current_room, records) ==
    LET room_entities == classified_intent.entities.room
        rooms == IF room_entities # <<>> THEN NormalizedValues(room_entities)
                 ELSE <<current_room>>
        device_entities == classified_intent.entities.device
        scene_names == IF device_entities # <<>>
                       THEN NormalizedValues(SelectSeq(device_entities, IsSceneEntity))
                       ELSE <<>>
        Parameters(found) ==
            [scene_names |-> scene_names, targets |-> found.scenes,
             rooms |-> rooms, raised |-> found.raised]
    IN  Parameters(IF intent_type = "SCENE_APPLY"
                   THEN get_scenes(records, Some(rooms),
                                   IF device_entities # <<>> THEN Some(scene_names)
                                   ELSE None)
                   ELSE [scenes |-> <<>>, raised |-> FALSE])

\* SceneSkill.find_parameters: the Parameters it returns, and whether
\* get_scenes raised.
find_parameters(intent_type, classified_intent, current_room, records) ==
    LET room_entities == classified_intent.entities.room
        rooms == IF room_entities # <<>> THEN NormalizedValues(room_entities)
                 ELSE <<current_room>>
        device_entities == classified_intent.entities.device
        scene_names == IF device_entities # <<>>
                       THEN NormalizedValues(SelectSeq(device_entities, IsSceneEntity))
                       ELSE <<>>
        Parameters(found) ==
            [scene_names |-> scene_names, targets |-> found.scenes,
             rooms |-> rooms, raised |-> found.raised]
    IN  Parameters(IF intent_type = "SCENE_APPLY"
                   THEN get_scenes(records,
                                   IF room_entities # <<>> THEN Some(rooms) ELSE None,
                                   IF device_entities # <<>> THEN Some(scene_names)
                                   ELSE None)
                   ELSE [scenes |-> <<>>, raised |-> FALSE])

RECURSIVE SumActions(_)
\* sum(len(scene.device_actions) for scene in targets)
SumActions(targets) ==
    IF targets = <<>> THEN 0
    ELSE Len(Head(targets).device_actions) + SumActions(Tail(targets))

\* A fixed response text.
Text(s) == [text |-> s]

\* SceneSkill._render_response: the arguments template.render is given stand
\* for the rendered text.
_render_response(intent_type, params) ==
    IF intent_type \notin DOMAIN intent_to_template
    THEN Text("Sorry, I couldn't process your request.")
    ELSE [template |-> intent_to_template[intent_type],
          scene_names |-> params.scene_names,
          targets |-> params.targets,
          device_count |-> SumActions(params.targets)]

RECURSIVE Flatten(_)
\* The device actions in the order the loops of _send_mqtt_commands visit
\* them: targets in list order and, within a target, actions in list order.
Flatten(targets) ==
    IF targets = <<>> THEN <<>>
    ELSE Head(targets).device_actions \o Flatten(Tail(targets))

\* _send_mqtt_commands, lines 221-224: topic = device_action.get("topic") is
\* truthy.
HasTopic(device_action) ==
    TOPIC \in DOMAIN device_action /\ device_action[TOPIC] # <<>>

\* Variant of PublishCall: the payload of the action is not read, every
\* publish carries "ON".
PublishCall_always_on(device_action) ==
    [topic |-> device_action[TOPIC], payload |-> ON, qos |-> 1]

\* _send_mqtt_commands, lines 221-226: the publish call made for an action.
PublishCall(device_action) ==
    [topic |-> device_action[TOPIC],
     payload |-> IF PAYLOAD \in DOMAIN device_action
                 THEN device_action[PAYLOAD] ELSE ON,
     qos |-> 1]

\* Variant of NextPublish: an action without a topic ends the loops instead
\* of being passed over.
NextPublish_no_skip(actions, k) ==
    IF k + 1 > Len(actions) THEN Len(actions) + 1
    ELSE IF HasTopic(actions[k + 1]) THEN k + 1
    ELSE Len(actions) + 1

RECURSIVE NextPublish(_, _)
\* The position of the first action after position k that is published
\* (actions without a topic are passed over with a warning); Len + 1 when the
\* loops end without another publish.
NextPublish(actions, k) ==
    IF k + 1 > Len(actions) THEN Len(actions) + 1
    ELSE IF HasTopic(actions[k + 1]) THEN k + 1
    ELSE NextPublish(actions, k + 1)

\* What a handler does before it suspends or returns: the Parameters it built
\* (Optional), the send_response calls it awaits, the answers it hands to
\* add_task(send_response(...)), and whether it hands _send_mqtt_commands to
\* add_task.
Effect(params, awaited, sends, publishes) ==
    [parameters |-> params, awaited |-> awaited, task_sends |-> sends,
     task_publish |-> publishes]

\* Variant of _handle_scene_apply: the `return` after the not-found response
\* is missing, so the handler goes on to render and to add both tasks.
handle_scene_apply_no_return(intent_request, records) ==
    LET Apply(found) ==
            LET params == [scene_names |-> found.scene_names,
                           targets |-> found.targets, rooms |-> found.rooms]
            IN  Effect(Some(params),
                       IF params.targets = <<>>
                       THEN <<Text("I couldn't find any scenes to activate.")>>
                       ELSE <<>>,
                       <<_render_response("SCENE_APPLY", params)>>, TRUE)
    IN  Apply(find_parameters("SCENE_APPLY", intent_request.classified_intent,
                              intent_request.client_request.room, records))

\* Variant of _handle_scene_apply: the `if not parameters.targets` branch is
\* missing.
handle_scene_apply_no_check(intent_request, records) ==
    LET Apply(found) ==
            LET params == [scene_names |-> found.scene_names,
                           targets |-> found.targets, rooms |-> found.rooms]
            IN  Effect(Some(params), <<>>,
                       <<_render_response("SCENE_APPLY", params)>>, TRUE)
    IN  Apply(find_parameters("SCENE_APPLY", intent_request.classified_intent,
                              intent_request.client_request.room, records))

\* Variant of _handle_scene_apply: the response is awaited
\* (`await self.send_response(answer, ...)`) instead of handed to add_task.
handle_scene_apply_awaits_response(intent_request, records) ==
    LET Apply(found) ==
            LET params == [scene_names |-> found.scene_names,
                           targets |-> found.targets, rooms |-> found.rooms]
            IN  IF params.targets = <<>>
                THEN Effect(Some(params),
                            <<Text("I couldn't find any scenes to activate.")>>,
                            <<>>, FALSE)
                ELSE Effect(Some(params),
                            <<_render_response("SCENE_APPLY", params)>>,
                            <<>>, TRUE)
    IN  Apply(find_parameters("SCENE_APPLY", intent_request.classified_intent,
                              intent_request.client_request.room, records))

\* SceneSkill._handle_scene_apply.
_handle_scene_apply(intent_request, records) ==
    LET Apply(found) ==
            LET params == [scene_names |-> found.scene_names,
                           targets |-> found.targets, rooms |-> found.rooms]
            IN  IF params.targets = <<>>
                THEN Effect(Some(params),
                            <<Text("I couldn't find any scenes to activate.")>>,
                            <<>>, FALSE)
                ELSE Effect(Some(params), <<>>,
                            <<_render_response("SCENE_APPLY", params)>>, TRUE)
    IN  Apply(find_parameters("SCENE_APPLY", intent_request.classified_intent,
                              intent_request.client_request.room, records))

\* Variant of process_request: every intent type is routed to
\* _handle_scene_apply.
process_request_no_routing(intent_request, records) ==
    _handle_scene_apply(intent_request, records)

\* SceneSkill.process_request.
process_request(intent_request, records) ==
    IF intent_request.classified_intent.intent_type = "SCENE_APPLY"
    THEN _handle_scene_apply(intent_request, records)
    ELSE Effect(None, <<Text("I'm not sure how to handle that request.")>>,
                <<>>, FALSE)

\* ------------------------------------------------------------------- state
VARIABLES
    global_devices,  \* BaseSkill.global_devices: the device registry snapshot
    gs_rooms,        \* get_scenes: the rooms argument
    gs_names,        \* get_scenes: the scene_names argument
    gs_i,            \* get_scenes: number of records the loop has processed
    scenes,          \* get_scenes: the local list `scenes`
    kept,            \* indices of the snapshot records appended to `scenes`
    gs_pc,           \* get_scenes: "idle", "loop", "returned" or "raised"
    pc,              \* process_request: "idle", "await_send" or "returned"
    request,         \* the IntentRequest being handled (Optional)
    parameters,      \* the Parameters of the call (Optional)
    responses,       \* the send_response calls made so far, in order
    response_task,   \* add_task(send_response(...)): "none", "scheduled",
                     \* "sending" or "done"
    answer,          \* the text handed to the response task (Optional)
    mqtt_task,       \* add_task(_send_mqtt_commands(...)): "none",
                     \* "scheduled", "publishing" or "done"
    mqtt_k,          \* device actions the publish loop has gone through
    published,       \* the mqtt_client.publish calls made so far, in order
    completed,       \* how many of these calls have ended (returned or raised)
    template_env,    \* the jinja2 Environment: what get_template(name) does
    init_pc,         \* SceneSkill.__init__: "new", "ready" or "aborted"
    templates,       \* self.intent_to_template
    rt_actions,      \* round trip: the action list, a Python list of dicts
    rt_text,         \* round trip: json.dumps of that list (Optional)
    rt_from_list,    \* round trip: from_global_device of the record that
                     \* holds the list (Optional)
    rt_from_text,    \* round trip: from_global_device of the record that
                     \* holds the text (Optional)
    calls,           \* concurrent calls of process_request: for each call its
                     \* position, its request, its local Parameters and its
                     \* two tasks
    stream,          \* concurrent calls: the mqtt_client.publish calls made
                     \* so far, in order, each with the call that made it
    snapshot_read    \* the value of self.global_devices that the resolution
                     \* of the call iterated (Optional)

\* A task that ended otherwise than by returning is "failed" (the awaited
\* call raised) or "cancelled".
resolve_vars == <<gs_rooms, gs_names, gs_i, scenes, kept, gs_pc>>
handler_vars == <<pc, request, parameters, responses, response_task, answer,
                  mqtt_task, mqtt_k, published, completed>>
init_vars == <<template_env, init_pc, templates>>
roundtrip_vars == <<rt_actions, rt_text, rt_from_list, rt_from_text>>
concurrent_vars == <<calls, stream>>
refresh_vars == <<snapshot_read>>
vars == <<global_devices, resolve_vars, handler_vars, init_vars, roundtrip_vars,
          concurrent_vars, refresh_vars>>

\* ------------------------------------------------------------------ inputs
\* Scene names: "romantic", "Romantic", "roman", "morning".
romantic == <<114, 111, 109, 97, 110, 116, 105, 99>>
Romantic == <<82, 111, 109, 97, 110, 116, 105, 99>>
roman == <<114, 111, 109, 97, 110>>
morning == <<109, 111, 114, 110, 105, 110, 103>>

\* Topics "t1" and "t2", payloads "OFF" and "50".
t1 == <<116, 49>>
t2 == <<116, 50>>
OFF == <<79, 70, 70>>
Fifty == <<53, 48>>

\* A topic of n characters.
TopicOfLength(n) == [i \in 1..n |-> 97]

\* "a/b c", "a+", "a#", "a<tab>b", "a" with the control code 25 (0x19), "a"
\* with code 28 (a separator that \s matches), "$SYS", and a topic one
\* character longer than MAX_TOPIC_LENGTH.
BadTopics ==
    {<<97, 47, 98, 32, 99>>, <<97, 43>>, <<97, 35>>, <<97, 9, 98>>,
     <<97, 25>>, <<97, 28>>, <<36, 83, 89, 83>>,
     TopicOfLength(MAX_TOPIC_LENGTH + 1)}

\* The empty topic "".
EmptyTopic == <<>>

\* {"topic": topic, "payload": payload}, {"topic": topic}, {"payload": payload}
Action(topic, payload) ==
    JDict(DictSet(DictSet(<<>>, TOPIC, JStr(topic)), PAYLOAD, JStr(payload)))
TopicOnly(topic) == JDict(DictSet(<<>>, TOPIC, JStr(topic)))
PayloadOnly(payload) == JDict(DictSet(<<>>, PAYLOAD, JStr(payload)))

\* device_attributes = {"device_actions": value}
Attrs(value) == Some(DictSet(<<>>, DEVICE_ACTIONS, value))
ListAttrs(actions) == Attrs(JList(actions))

GlobalDevice(name, room, device_attributes) ==
    [name |-> name, room |-> room, device_attributes |-> device_attributes]

\* JSON texts:
\*   [{"topic": "t1", "payload": "ON"}, {"topic": "t2"}]
\*   [{"topic": "t1", "payload": "ON"}        (cut short)
\*   {"topic": "t1"}                           (not a list)
\*   []                                        (an empty list)
\*   [{"topic": "a\tb"}]                    (a tab, escaped, in the topic)
JsonTwoActions ==
    <<91, 123, 34, 116, 111, 112, 105, 99, 34, 58, 32, 34, 116, 49, 34, 44, 32, 34, 112, 97, 121, 108, 111, 97, 100, 34, 58, 32,
      34, 79, 78, 34, 125, 44, 32,
      123, 34, 116, 111, 112, 105, 99, 34, 58, 32, 34, 116, 50, 34, 125, 93>>
JsonCutShort ==
    <<91, 123, 34, 116, 111, 112, 105, 99, 34, 58, 32, 34, 116, 49, 34, 44, 32, 34, 112, 97, 121, 108, 111, 97, 100, 34, 58, 32,
      34, 79, 78, 34, 125>>
JsonDict == <<123, 34, 116, 111, 112, 105, 99, 34, 58, 32, 34, 116, 49, 34, 125>>
JsonEmptyList == <<91, 93>>
JsonTabTopic ==
    <<91, 123, 34, 116, 111, 112, 105, 99, 34, 58, 32, 34, 97, 92, 116, 98, 34, 125, 93>>

\* Records whose conversion succeeds: lists and a JSON text; a record without
\* a room; an action without a payload; a topic of exactly MAX_TOPIC_LENGTH
\* characters and the topic "a" + code 26 (the first control character above
\* the range of the regex).
GoodRecords ==
    {GlobalDevice(romantic, Some("bedroom"), ListAttrs(<<Action(t1, ON)>>)),
     GlobalDevice(Romantic, Some("living room"),
                  ListAttrs(<<TopicOnly(t1), Action(t2, Fifty)>>)),
     GlobalDevice(morning, None, ListAttrs(<<Action(t2, OFF)>>)),
     GlobalDevice(morning, Some("bedroom"),
                  ListAttrs(<<Action(TopicOfLength(MAX_TOPIC_LENGTH), ON),
                              Action(<<97, 26>>, ON)>>)),
     GlobalDevice(morning, Some("living room"), Attrs(JStr(JsonTwoActions)))}

\* Records with one action whose topic breaks the rule, between valid actions.
BadTopicRecords ==
    {GlobalDevice(romantic, Some("bedroom"),
                  ListAttrs(<<Action(t1, ON), Action(t, ON), Action(t2, Fifty)>>)) :
        t \in BadTopics}

\* Records with an action that has no topic key, an empty topic, a payload
\* that is no str; with no device_attributes, no device_actions key, an empty
\* list, an empty str, a dict; with a JSON text that is cut short, is no list, is an empty
\* list, holds a bad topic.
OtherRecords ==
    {GlobalDevice(morning, Some("bedroom"),
                  ListAttrs(<<Action(t1, ON), PayloadOnly(ON)>>)),
     GlobalDevice(romantic, Some("bedroom"),
                  ListAttrs(<<Action(EmptyTopic, ON), Action(t2, Fifty)>>)),
     GlobalDevice(Romantic, Some("bedroom"),
                  ListAttrs(<<JDict(DictSet(DictSet(<<>>, TOPIC, JStr(t1)),
                                            PAYLOAD, JNumber(Fifty)))>>)),
     GlobalDevice(romantic, Some("bedroom"), None),
     GlobalDevice(morning, Some("living room"),
                  Some(DictSet(<<>>, <<105, 99, 111, 110>>, JStr(<<120>>)))),
     GlobalDevice(romantic, None, ListAttrs(<<>>)),
     GlobalDevice(romantic, Some("bedroom"), Attrs(JStr(<<>>))),
     GlobalDevice(morning, Some("bedroom"), Attrs(TopicOnly(t1))),
     GlobalDevice(romantic, Some("living room"), Attrs(JStr(JsonCutShort))),
     GlobalDevice(morning, Some("bedroom"), Attrs(JStr(JsonDict))),
     GlobalDevice(romantic, Some("bedroom"), Attrs(JStr(JsonEmptyList))),
     GlobalDevice(morning, Some("bedroom"), Attrs(JStr(JsonTabTopic)))}

RecordPool == GoodRecords \cup BadTopicRecords \cup OtherRecords

SeqsUpTo(S, n) == UNION {[1..k -> S] : k \in 0..n}

\* The rooms and scene_names arguments get_scenes is called with.
RoomArgs ==
    {None, Some(<<>>), Some(<<"kitchen", "bedroom">>), Some(<<"Bedroom">>)}
NameArgs ==
    {None, Some(<<>>), Some(<<Romantic>>), Some(<<roman, morning>>)}

\* No request has been received.
HandlerIdle ==
    /\ pc = "idle"
    /\ request = None
    /\ parameters = None
    /\ responses = <<>>
    /\ response_task = "none"
    /\ answer = None
    /\ mqtt_task = "none"
    /\ mqtt_k = 0
    /\ published = <<>>
    /\ completed = 0
    /\ snapshot_read = None

\* No round trip is under way.
RoundTripIdle ==
    /\ rt_actions = <<>>
    /\ rt_text = None
    /\ rt_from_list = None
    /\ rt_from_text = None

\* The calls of process_request that may overlap.
Calls == {1, 2}

\* A call that has not been made.
IdleCall ==
    [pc |-> "idle", request |-> None, parameters |-> None, responses |-> <<>>,
     response_task |-> "none", answer |-> None, mqtt_task |-> "none",
     mqtt_k |-> 0]

\* No call has been made.
ConcurrentIdle ==
    /\ calls = [c \in Calls |-> IdleCall]
    /\ stream = <<>>

\* The jinja2 environments: each template name with what get_template does.
TemplateEnvs ==
    [{template_mappings[i].template_name : i \in DOMAIN template_mappings}
        -> TemplateOutcomes]

\* An environment that holds every template.
AllTemplates ==
    [n \in {template_mappings[i].template_name : i \in DOMAIN template_mappings}
        |-> "found"]

\* A constructed skill, as the runs of get_scenes have it.
Constructed ==
    /\ template_env = AllTemplates
    /\ init_pc = "ready"
    /\ templates = intent_to_template

\* --------------------------------------------- get_scenes, record by record
ResolveInit ==
    /\ global_devices \in SeqsUpTo(RecordPool, MaxRecords)
    /\ gs_rooms \in RoomArgs
    /\ gs_names \in NameArgs
    /\ gs_i = 0
    /\ scenes = <<>>
    /\ kept = <<>>
    /\ gs_pc = "loop"
    /\ HandlerIdle
    /\ Constructed
    /\ RoundTripIdle
    /\ ConcurrentIdle

\* One iteration of `for global_device in self.global_devices`.
GetScenesIter ==
    /\ gs_pc = "loop"
    /\ gs_i < Len(global_devices)
    /\ LET Body(acc) ==
               /\ scenes' = acc.scenes
               /\ kept' = IF Len(acc.scenes) > Len(scenes)
                          THEN Append(kept, gs_i + 1) ELSE kept
               /\ gs_pc' = IF acc.raised THEN "raised" ELSE "loop"
       IN  Body(get_scenes_iter([scenes |-> scenes, raised |-> FALSE],
                                global_devices[gs_i + 1], gs_rooms, gs_names))
    /\ gs_i' = gs_i + 1
    /\ UNCHANGED <<global_devices, refresh_vars, concurrent_vars, roundtrip_vars, gs_rooms, gs_names, handler_vars, init_vars>>

\* `return scenes`.
GetScenesReturn ==
    /\ gs_pc = "loop"
    /\ gs_i = Len(global_devices)
    /\ gs_pc' = "returned"
    /\ UNCHANGED <<global_devices, refresh_vars, concurrent_vars, roundtrip_vars, gs_rooms, gs_names, gs_i, scenes, kept,
                   handler_vars, init_vars>>

ResolveNext == GetScenesIter \/ GetScenesReturn

SpecResolve == ResolveInit /\ [][ResolveNext]_vars

\* The record-by-record run returns what the call returns.
ResolveAgrees ==
    gs_pc = "returned" =>
        scenes = get_scenes(global_devices, gs_rooms, gs_names).scenes


\* ------------------------------------------------------ intent requests
Entity(value, metadata) == [normalized_value |-> value, metadata |-> metadata]
SceneEntity(name) == Entity(name, Some([device_type |-> "scene"]))

RoomEntityLists == {<<>>, <<Entity("bedroom", None)>>, <<Entity("kitchen", None)>>}
DeviceEntityLists ==
    {<<>>,
     <<SceneEntity(Romantic)>>,
     <<SceneEntity(morning), SceneEntity(romantic)>>,
     <<Entity(romantic, Some([device_type |-> "light"])), Entity(morning, None)>>}

IntentRequest(intent_type, room_entities, device_entities, room) ==
    [classified_intent |->
         [intent_type |-> intent_type,
          entities |-> [room |-> room_entities, device |-> device_entities]],
     client_request |-> [room |-> room]]

Requests ==
    {IntentRequest("SCENE_APPLY", r, d, "living room") :
        r \in RoomEntityLists, d \in DeviceEntityLists}
    \cup {IntentRequest(t, <<>>, <<>>, "living room") :
            t \in IntentTypes \ {"SCENE_APPLY"}}

\* Snapshots of the handler runs: two valid scenes that share topic t1, a
\* scene without a room, a scene whose first action has an empty topic, a
\* record with a bad topic, and a scene held as JSON text.
ScenePool ==
    {GlobalDevice(romantic, Some("bedroom"), ListAttrs(<<Action(t1, ON)>>)),
     GlobalDevice(Romantic, Some("living room"),
                  ListAttrs(<<TopicOnly(t1), Action(t2, Fifty)>>)),
     GlobalDevice(morning, None, ListAttrs(<<Action(t2, OFF)>>)),
     GlobalDevice(romantic, Some("bedroom"),
                  ListAttrs(<<Action(EmptyTopic, ON), Action(t2, Fifty)>>)),
     GlobalDevice(morning, Some("bedroom"),
                  ListAttrs(<<Action(t1, ON), Action(<<97, 47, 98, 32, 99>>, ON)>>)),
     GlobalDevice(morning, Some("living room"), Attrs(JStr(JsonTwoActions)))}

\* --------------------------------------------------------- the handler
Init ==
    /\ global_devices \in SeqsUpTo(ScenePool, MaxRecords)
    /\ gs_rooms = None
    /\ gs_names = None
    /\ gs_i = 0
    /\ scenes = <<>>
    /\ kept = <<>>
    /\ gs_pc = "idle"
    /\ HandlerIdle
    /\ template_env \in TemplateEnvs
    /\ init_pc = "new"
    /\ templates = <<>>
    /\ RoundTripIdle
    /\ ConcurrentIdle

\* SceneSkill.__init__: self.intent_to_template = {} and _load_templates();
\* an exception that leaves _load_templates leaves __init__, and no instance
\* exists.
Construct ==
    /\ init_pc = "new"
    /\ LET Loaded(r) ==
               /\ init_pc' = IF r.ok THEN "ready" ELSE "aborted"
               /\ templates' = IF r.ok THEN r.intent_to_template ELSE templates
       IN  Loaded(_load_templates(template_env))
    /\ UNCHANGED <<global_devices, refresh_vars, concurrent_vars, roundtrip_vars, resolve_vars, handler_vars, template_env>>

\* process_request(intent_request) runs up to its first suspension (an awaited
\* send_response) or to its return.
ProcessRequest(intent_request) ==
    /\ init_pc = "ready"
    /\ pc = "idle"
    /\ LET Run(e) ==
               /\ request' = Some(intent_request)
               /\ parameters' = e.parameters
               /\ responses' = e.awaited
               /\ pc' = IF e.awaited # <<>> THEN "await_send" ELSE "returned"
               /\ response_task' = IF e.task_sends # <<>> THEN "scheduled" ELSE "none"
               /\ answer' = IF e.task_sends # <<>> THEN Some(e.task_sends[1]) ELSE None
               /\ mqtt_task' = IF e.task_publish THEN "scheduled" ELSE "none"
       IN  Run(process_request(intent_request, global_devices))
    /\ snapshot_read' = Some(global_devices)
    /\ UNCHANGED <<global_devices, concurrent_vars, roundtrip_vars, resolve_vars,
                   init_vars, mqtt_k, published, completed>>

\* The awaited send_response completes and the handler returns.
SendResponseReturns ==
    /\ pc = "await_send"
    /\ pc' = "returned"
    /\ UNCHANGED <<global_devices, refresh_vars, concurrent_vars, roundtrip_vars, resolve_vars, init_vars, request, parameters,
                   responses, response_task, answer, mqtt_task, mqtt_k,
                   published, completed>>

\* The response task starts: it calls send_response(answer, client_request).
ResponseTaskStart ==
    /\ response_task = "scheduled"
    /\ response_task' = "sending"
    /\ responses' = Append(responses, The(answer))
    /\ UNCHANGED <<global_devices, refresh_vars, concurrent_vars, roundtrip_vars, resolve_vars, init_vars, pc, request,
                   parameters, answer, mqtt_task, mqtt_k, published, completed>>

\* The send of the response task completes.
ResponseTaskDone ==
    /\ response_task = "sending"
    /\ response_task' = "done"
    /\ UNCHANGED <<global_devices, refresh_vars, concurrent_vars, roundtrip_vars, resolve_vars, init_vars, pc, request,
                   parameters, responses, answer, mqtt_task, mqtt_k, published,
                   completed>>

\* The send of the response task raises (a transport error): the send is the
\* last statement of the task, which ends with the exception.
ResponseTaskFails ==
    /\ response_task = "sending"
    /\ response_task' = "failed"
    /\ UNCHANGED <<global_devices, refresh_vars, concurrent_vars, roundtrip_vars, resolve_vars, init_vars, pc, request,
                   parameters, responses, answer, mqtt_task, mqtt_k, published,
                   completed>>

\* The response task is cancelled, before it starts or during its send.
ResponseTaskCancelled ==
    /\ response_task \in {"scheduled", "sending"}
    /\ response_task' = "cancelled"
    /\ UNCHANGED <<global_devices, refresh_vars, concurrent_vars, roundtrip_vars, resolve_vars, init_vars, pc, request,
                   parameters, responses, answer, mqtt_task, mqtt_k, published,
                   completed>>

\* Variant of MqttAdvance: the publishes of all actions are issued at once
\* (gathered) instead of one after the other.
MqttAdvance_gather ==
    LET actions == Flatten(The(parameters).targets)
        topics == SelectSeq(actions, HasTopic)
    IN  IF mqtt_k >= Len(actions) \/ topics = <<>>
        THEN /\ mqtt_task' = "done"
             /\ mqtt_k' = Len(actions)
             /\ published' = published
        ELSE /\ mqtt_task' = "publishing"
             /\ mqtt_k' = Len(actions)
             /\ published' = published \o [i \in DOMAIN topics |-> PublishCall(topics[i])]

\* _send_mqtt_commands runs from position mqtt_k to its next publish call,
\* or to the end of its loops.
MqttAdvance ==
    LET actions == Flatten(The(parameters).targets)
        k == NextPublish(actions, mqtt_k)
    IN  IF k > Len(actions)
        THEN /\ mqtt_task' = "done"
             /\ mqtt_k' = Len(actions)
             /\ published' = published
        ELSE /\ mqtt_task' = "publishing"
             /\ mqtt_k' = k
             /\ published' = Append(published, PublishCall(actions[k]))

\* The publish task starts.
MqttTaskStart ==
    /\ mqtt_task = "scheduled"
    /\ MqttAdvance
    /\ UNCHANGED <<global_devices, refresh_vars, concurrent_vars, roundtrip_vars, resolve_vars, init_vars, pc, request,
                   parameters, responses, response_task, answer, completed>>

\* `await self.mqtt_client.publish(...)` completes and the loops go on.
PublishComplete ==
    /\ mqtt_task = "publishing"
    /\ completed' = completed + 1
    /\ MqttAdvance
    /\ UNCHANGED <<global_devices, refresh_vars, concurrent_vars, roundtrip_vars, resolve_vars, init_vars, pc, request,
                   parameters, responses, response_task, answer>>

\* `await self.mqtt_client.publish(...)` raises: nothing in
\* _send_mqtt_commands catches it, and the task ends with the exception.
PublishFails ==
    /\ mqtt_task = "publishing"
    /\ mqtt_task' = "failed"
    /\ completed' = completed + 1
    /\ UNCHANGED <<global_devices, refresh_vars, concurrent_vars, roundtrip_vars, resolve_vars, init_vars, pc, request,
                   parameters, responses, response_task, answer, mqtt_k,
                   published>>

\* The publish task is cancelled, before it starts or at its pending publish:
\* CancelledError is raised at the await and nothing catches it.
MqttTaskCancelled ==
    /\ mqtt_task \in {"scheduled", "publishing"}
    /\ mqtt_task' = "cancelled"
    /\ completed' = Len(published)
    /\ UNCHANGED <<global_devices, refresh_vars, concurrent_vars, roundtrip_vars, resolve_vars, init_vars, pc, request,
                   parameters, responses, response_task, answer, mqtt_k,
                   published>>

Next ==
    \/ Construct
    \/ \E intent_request \in Requests : ProcessRequest(intent_request)
    \/ SendResponseReturns
    \/ ResponseTaskStart
    \/ ResponseTaskDone
    \/ ResponseTaskFails
    \/ ResponseTaskCancelled
    \/ MqttTaskStart
    \/ PublishComplete
    \/ PublishFails
    \/ MqttTaskCancelled

Spec == Init /\ [][Next]_vars


\* ================================================================ properties
\* ----------------------------------------- device_actions as list or text
\* Python dicts of an action list, with their keys in either insertion order:
\* valid actions (among them topics and payloads with '"', '\', control
\* characters, characters beyond ASCII and beyond 0xFFFF, an empty topic, a
\* key besides topic and payload) and actions the validator rejects.
RoundTripActions ==
    {OrderedDict(<<TOPIC, PAYLOAD>>, Action(t1, ON).val),
     OrderedDict(<<PAYLOAD, TOPIC>>, Action(t2, <<34, 79, 92, 78, 34>>).val),
     OrderedDict(<<TOPIC>>, TopicOnly(<<97, 47, 233, 26, 127>>).val),
     OrderedDict(<<TOPIC, PAYLOAD>>,
                 Action(<<92, 34>>, <<10, 13, 9, 8, 12, 128512, 8364>>).val),
     OrderedDict(<<PAYLOAD, TOPIC, <<105, 100>>>>,
                 DictSet(Action(EmptyTopic, <<47, 92, 117>>).val,
                         <<105, 100>>, JStr(<<55>>))),
     OrderedDict(<<TOPIC, PAYLOAD>>, Action(<<97, 43>>, ON).val),
     OrderedDict(<<TOPIC>>, TopicOnly(<<97, 9, 98>>).val),
     OrderedDict(<<PAYLOAD>>, PayloadOnly(ON).val)}

\* The record of a scene whose device_actions attribute is value.
RoundTripRecord(value) == GlobalDevice(romantic, Some("bedroom"), Attrs(value))

RoundTripInit ==
    /\ rt_actions \in SeqsUpTo(RoundTripActions, MaxActions)
    /\ rt_text = None
    /\ rt_from_list = None
    /\ rt_from_text = None
    /\ global_devices = <<>>
    /\ gs_rooms = None
    /\ gs_names = None
    /\ gs_i = 0
    /\ scenes = <<>>
    /\ kept = <<>>
    /\ gs_pc = "idle"
    /\ HandlerIdle
    /\ Constructed
    /\ ConcurrentIdle

\* json.dumps(actions): the text a registry stores for the list.
Encode ==
    /\ rt_text = None
    /\ rt_text' = Some(json_dumps(JList(rt_actions)))
    /\ UNCHANGED <<global_devices, refresh_vars, concurrent_vars, resolve_vars, handler_vars, init_vars,
                   rt_actions, rt_from_list, rt_from_text>>

\* SceneDevice.from_global_device of the record that holds the list.
ResolveList ==
    /\ rt_from_list = None
    /\ rt_from_list' = Some(from_global_device(RoundTripRecord(JList(rt_actions))))
    /\ UNCHANGED <<global_devices, refresh_vars, concurrent_vars, resolve_vars, handler_vars, init_vars,
                   rt_actions, rt_text, rt_from_text>>

\* SceneDevice.from_global_device of the record that holds the text.
ResolveText ==
    /\ rt_text # None
    /\ rt_from_text = None
    /\ rt_from_text' = Some(from_global_device(RoundTripRecord(JStr(The(rt_text)))))
    /\ UNCHANGED <<global_devices, refresh_vars, concurrent_vars, resolve_vars, handler_vars, init_vars,
                   rt_actions, rt_text, rt_from_list>>

RoundTripNext == Encode \/ ResolveList \/ ResolveText

SpecRoundTrip == RoundTripInit /\ [][RoundTripNext]_vars

\* -------------------------------------------------- two concurrent calls
\* Snapshots of the concurrent runs: scenes that share topics, a scene whose
\* first action has an empty topic, a scene without a room, a scene held as
\* JSON text.
ConcurrentSnapshots ==
    {<<GlobalDevice(romantic, Some("bedroom"), ListAttrs(<<Action(t1, ON)>>)),
       GlobalDevice(Romantic, Some("living room"),
                    ListAttrs(<<TopicOnly(t1), Action(t2, Fifty)>>))>>,
     <<GlobalDevice(romantic, Some("bedroom"),
                    ListAttrs(<<Action(EmptyTopic, ON), Action(t2, Fifty)>>)),
       GlobalDevice(morning, None, ListAttrs(<<Action(t2, OFF)>>))>>,
     <<GlobalDevice(morning, Some("living room"), Attrs(JStr(JsonTwoActions))),
       GlobalDevice(romantic, Some("bedroom"), ListAttrs(<<Action(t1, ON)>>))>>}

\* The intents of the concurrent runs: every scene, scenes by name, scenes by
\* room and name, a room without scenes, and an intent that is no SCENE_APPLY.
ConcurrentRequests ==
    {IntentRequest("SCENE_APPLY", <<>>, <<>>, "living room"),
     IntentRequest("SCENE_APPLY", <<>>, <<SceneEntity(Romantic)>>, "living room"),
     IntentRequest("SCENE_APPLY", <<Entity("bedroom", None)>>,
                   <<SceneEntity(morning), SceneEntity(romantic)>>, "living room"),
     IntentRequest("SCENE_APPLY", <<Entity("kitchen", None)>>, <<>>, "living room"),
     IntentRequest("SYSTEM_HELP", <<>>, <<>>, "living room")}

ConcurrentInit ==
    /\ global_devices \in ConcurrentSnapshots
    /\ calls = [c \in Calls |-> IdleCall]
    /\ stream = <<>>
    /\ gs_rooms = None
    /\ gs_names = None
    /\ gs_i = 0
    /\ scenes = <<>>
    /\ kept = <<>>
    /\ gs_pc = "idle"
    /\ HandlerIdle
    /\ Constructed
    /\ RoundTripIdle

\* Call c of process_request(intent_request) runs up to its first suspension
\* (an awaited send_response) or to its return.  Its Parameters is a local
\* of the call.
CallProcessRequest(c, intent_request) ==
    /\ calls[c].pc = "idle"
    /\ LET Run(e) ==
               calls' = [calls EXCEPT ![c] =
                   [pc |-> IF e.awaited # <<>> THEN "await_send" ELSE "returned",
                    request |-> Some(intent_request),
                    parameters |-> e.parameters,
                    responses |-> e.awaited,
                    response_task |-> IF e.task_sends # <<>> THEN "scheduled"
                                      ELSE "none",
                    answer |-> IF e.task_sends # <<>> THEN Some(e.task_sends[1])
                               ELSE None,
                    mqtt_task |-> IF e.task_publish THEN "scheduled" ELSE "none",
                    mqtt_k |-> 0]]
       IN  Run(process_request(intent_request, global_devices))
    /\ UNCHANGED <<global_devices, refresh_vars, resolve_vars, handler_vars, init_vars,
                   roundtrip_vars, stream>>

\* The awaited send_response of call c completes and the call returns.
CallSendResponseReturns(c) ==
    /\ calls[c].pc = "await_send"
    /\ calls' = [calls EXCEPT ![c].pc = "returned"]
    /\ UNCHANGED <<global_devices, refresh_vars, resolve_vars, handler_vars, init_vars,
                   roundtrip_vars, stream>>

\* The response task of call c runs: send_response(answer, client_request).
CallResponseTask(c) ==
    /\ calls[c].response_task = "scheduled"
    /\ calls' = [calls EXCEPT ![c].response_task = "done",
                              ![c].responses = Append(@, The(calls[c].answer))]
    /\ UNCHANGED <<global_devices, refresh_vars, resolve_vars, handler_vars, init_vars,
                   roundtrip_vars, stream>>

\* _send_mqtt_commands of call c runs from position mqtt_k to its next
\* publish call, or to the end of its loops.
CallMqttAdvance(c) ==
    LET actions == Flatten(The(calls[c].parameters).targets)
        k == NextPublish(actions, calls[c].mqtt_k)
    IN  IF k > Len(actions)
        THEN /\ calls' = [calls EXCEPT ![c].mqtt_task = "done",
                                       ![c].mqtt_k = Len(actions)]
             /\ stream' = stream
        ELSE /\ calls' = [calls EXCEPT ![c].mqtt_task = "publishing",
                                       ![c].mqtt_k = k]
             /\ stream' = Append(stream, [call |-> c,
                                          publish |-> PublishCall(actions[k])])

\* The publish task of call c starts.
CallMqttTaskStart(c) ==
    /\ calls[c].mqtt_task = "scheduled"
    /\ CallMqttAdvance(c)
    /\ UNCHANGED <<global_devices, refresh_vars, resolve_vars, handler_vars, init_vars,
                   roundtrip_vars>>

\* The pending publish of call c completes and its loops go on.
CallPublishComplete(c) ==
    /\ calls[c].mqtt_task = "publishing"
    /\ CallMqttAdvance(c)
    /\ UNCHANGED <<global_devices, refresh_vars, resolve_vars, handler_vars, init_vars,
                   roundtrip_vars>>

\* The pending publish of call c raises, or the task is cancelled at it: the
\* task ends there.
CallPublishFails(c) ==
    /\ calls[c].mqtt_task = "publishing"
    /\ calls' = [calls EXCEPT ![c].mqtt_task = "failed"]
    /\ UNCHANGED <<global_devices, refresh_vars, resolve_vars, handler_vars, init_vars,
                   roundtrip_vars, stream>>

ConcurrentNext ==
    \E c \in Calls :
        \/ \E intent_request \in ConcurrentRequests :
               CallProcessRequest(c, intent_request)
        \/ CallSendResponseReturns(c)
        \/ CallResponseTask(c)
        \/ CallMqttTaskStart(c)
        \/ CallPublishComplete(c)
        \/ CallPublishFails(c)

SpecConcurrent == ConcurrentInit /\ [][ConcurrentNext]_vars

\* ------------------------------------------------ the handler, fair runs
\* The steps of a run in which every send and every publish completes
\* without error and no task is cancelled.
NextLive ==
    \/ Construct
    \/ \E intent_request \in Requests : ProcessRequest(intent_request)
    \/ SendResponseReturns
    \/ ResponseTaskStart
    \/ ResponseTaskDone
    \/ MqttTaskStart
    \/ PublishComplete

\* The event loop runs every task handed to add_task, and every awaited send
\* and publish completes.
SpecLive ==
    /\ Init
    /\ [][NextLive]_vars
    /\ WF_vars(SendResponseReturns)
    /\ WF_vars(ResponseTaskStart)
    /\ WF_vars(ResponseTaskDone)
    /\ WF_vars(MqttTaskStart)
    /\ WF_vars(PublishComplete)

\* ------------------------------------------- a call and registry refreshes
\* The values self.global_devices takes: the snapshots of the concurrent
\* runs and an empty registry.
RefreshSnapshots == ConcurrentSnapshots \cup {<<>>}

RefreshInit ==
    /\ global_devices \in RefreshSnapshots
    /\ gs_rooms = None
    /\ gs_names = None
    /\ gs_i = 0
    /\ scenes = <<>>
    /\ kept = <<>>
    /\ gs_pc = "idle"
    /\ HandlerIdle
    /\ Constructed
    /\ RoundTripIdle
    /\ ConcurrentIdle

\* The registry refresh of BaseSkill assigns a new list to
\* self.global_devices; it runs between any two steps of the event loop.
RefreshRegistry ==
    /\ global_devices' \in RefreshSnapshots \ {global_devices}
    /\ UNCHANGED <<refresh_vars, concurrent_vars, roundtrip_vars, resolve_vars,
                   handler_vars, init_vars>>

RefreshNext ==
    \/ \E intent_request \in ConcurrentRequests : ProcessRequest(intent_request)
    \/ SendResponseReturns
    \/ ResponseTaskStart
    \/ ResponseTaskDone
    \/ MqttTaskStart
    \/ PublishComplete
    \/ RefreshRegistry

SpecRefresh == RefreshInit /\ [][RefreshNext]_vars

\* ---------------------------------------------------------------- handler
NotFoundText == Text("I couldn't find any scenes to activate.")
FallbackText == Text("I'm not sure how to handle that request.")
IsConfirmation(r) == "template" \in DOMAIN r /\ r.template = "apply.j2"

\* The send_response calls the handler has made or handed to add_task (the
\* call of a task that has not started, or was cancelled before it started,
\* is not in `responses`).
ResponsesIssued ==
    responses \o (IF \/ response_task = "scheduled"
                     \/ response_task = "cancelled" /\ responses = <<>>
                  THEN <<The(answer)>> ELSE <<>>)

ExpectedPublish(device_action) ==
    [topic |-> device_action[TOPIC],
     payload |-> IF PAYLOAD \in DOMAIN device_action
                 THEN device_action[PAYLOAD] ELSE ON]

\* C2: a dispatch that ran to completion has issued exactly one publish per
\* device action of the resolved targets, with that action's (topic, payload),
\* targets in list order and actions in list order within a target.
C2_OnePublishPerAction ==
    mqtt_task = "done" =>
        LET actions == Flatten(The(parameters).targets)
        IN  [i \in DOMAIN published |->
                [topic |-> published[i].topic, payload |-> published[i].payload]]
            = [i \in DOMAIN actions |-> ExpectedPublish(actions[i])]

\* C3: when resolution of a SCENE_APPLY intent yields zero targets, the one
\* response is the fixed "couldn't find any scenes" text, nothing is published
\* and neither task is started.
C3_NoTargetsNoPublish ==
    (/\ request # None
     /\ The(request).classified_intent.intent_type = "SCENE_APPLY"
     /\ The(parameters).targets = <<>>) =>
        /\ responses = <<NotFoundText>>
        /\ response_task = "none"
        /\ mqtt_task = "none"
        /\ published = <<>>

\* A SCENE_APPLY intent named scenes, the snapshot holds records, none was
\* resolved, and the handler has returned.
C3_Witness ==
    /\ pc = "returned"
    /\ The(request).classified_intent.intent_type = "SCENE_APPLY"
    /\ The(request).classified_intent.entities.device # <<>>
    /\ global_devices # <<>>
    /\ The(parameters).targets = <<>>
    /\ responses = <<NotFoundText>>

\* --------------------------------------------------------------- resolver
\* The records the loop of get_scenes has gone through.
Processed == 1..gs_i
Kept == Range(kept)
Record(i) == global_devices[i]
Convertible(global_device) == from_global_device(global_device).ok
PassesFilters(global_device) ==
    /\ ~RoomFilterSkips(global_device, gs_rooms)
    /\ ~NameFilterSkips(global_device, gs_names)

\* C4: a record that fails conversion is dropped and raises nothing to the
\* caller of get_scenes, and every other record that passes the filters and
\* converts is returned, as converted and in snapshot order.
C4_MalformedDroppedSiblingsKept ==
    /\ gs_pc # "raised"
    /\ \A i \in Processed :
          /\ i \in Kept => Convertible(Record(i))
          /\ (PassesFilters(Record(i)) /\ i \notin Kept) => ~Convertible(Record(i))
    /\ scenes = [j \in DOMAIN kept |-> from_global_device(Record(kept[j])).scene]

\* get_scenes returned a scene of a record that comes after a record that
\* passed the filters and failed conversion.
C4_Witness ==
    /\ gs_pc = "returned"
    /\ \E i, j \in Processed :
          /\ i < j
          /\ PassesFilters(Record(i)) /\ ~Convertible(Record(i))
          /\ j \in Kept

\* A non-empty rooms filter was supplied.
RoomsSupplied == gs_rooms # None /\ The(gs_rooms) # <<>>

\* C5: with a non-empty rooms filter, every returned scene comes from a record
\* whose room is present and is a case-sensitive member of rooms (records
\* with no room are skipped).
C5_RoomFilterSkipsRoomless ==
    RoomsSupplied =>
        \A i \in Kept :
            /\ Record(i).room # None
            /\ The(Record(i).room) \in Range(The(gs_rooms))

\* Equality of two texts up to the case of ASCII letters.
SameIgnoringCase(a, b) ==
    /\ Len(a) = Len(b)
    /\ \A i \in DOMAIN a :
          \/ a[i] = b[i]
          \/ a[i] \in 65..90 /\ b[i] = a[i] + 32
          \/ b[i] \in 65..90 /\ a[i] = b[i] + 32

NameMatches(global_device) ==
    \E k \in DOMAIN The(gs_names) :
        SameIgnoringCase(global_device.name, The(gs_names)[k])

\* C6: with a non-empty names filter, a record is kept only if its name equals
\* an entry of names up to case (whole-name equality, no substring match), and
\* a convertible record that passes the room filter and whose name equals an
\* entry up to case is kept ("Romantic" matches a record named "romantic").
C6_NameFilterCaseInsensitive ==
    (gs_names # None /\ The(gs_names) # <<>>) =>
        /\ \A i \in Kept : NameMatches(Record(i))
        /\ \A i \in Processed :
              (/\ NameMatches(Record(i))
               /\ ~RoomFilterSkips(Record(i), gs_rooms)
               /\ Convertible(Record(i))) => i \in Kept

\* The filter ["Romantic"] kept a record named "romantic".
C6_Witness ==
    /\ gs_pc = "returned"
    /\ gs_names = Some(<<Romantic>>)
    /\ \E i \in Kept : Record(i).name = romantic

\* Every processed record that passes the room filter and converts is kept.
NameFilterNotApplied ==
    \A i \in Processed :
        (~RoomFilterSkips(Record(i), gs_rooms) /\ Convertible(Record(i)))
            => i \in Kept

\* C7 as stated: with names omitted (None) or an empty names list the name
\* filter is not applied.
C7_EmptyNamesNotApplied ==
    (gs_names = None \/ gs_names = Some(<<>>)) => NameFilterNotApplied

\* C7: with names omitted (None) the name filter is not applied: every record
\* that passes the room filter is a candidate for conversion.  With an empty
\* names list the filter is applied and no record passes it: the result is
\* empty.
C7_NoneNotAppliedEmptyMatchesNothing ==
    /\ gs_names = None => NameFilterNotApplied
    /\ gs_names = Some(<<>>) => (kept = <<>> /\ scenes = <<>>)

\* get_scenes returned nothing for an empty names list although a record of
\* the snapshot passes the room filter and converts.
C7_Witness ==
    /\ gs_pc = "returned"
    /\ gs_names = Some(<<>>)
    /\ scenes = <<>>
    /\ \E i \in Processed :
          ~RoomFilterSkips(Record(i), gs_rooms) /\ Convertible(Record(i))

\* The room filter of the claims: the room is present and a member of rooms.
RoomMatches(global_device) ==
    /\ global_device.room # None
    /\ The(global_device.room) \in Range(The(gs_rooms))

\* C8: with both filters supplied, a record is returned only if its room is a
\* member of rooms and its name equals an entry of names up to case; when no
\* record satisfies both, the result is empty.
C8_AndSemantics ==
    (RoomsSupplied /\ gs_names # None /\ The(gs_names) # <<>>) =>
        /\ \A i \in Kept : RoomMatches(Record(i)) /\ NameMatches(Record(i))
        /\ (\A i \in DOMAIN global_devices :
               ~(RoomMatches(Record(i)) /\ NameMatches(Record(i))))
           => scenes = <<>>

\* The characters the claim forbids in a topic: '+', '#', ASCII whitespace
\* (tab, LF, VT, FF, CR, space) and the control characters 0 to 0x19.
ForbiddenInTopic == {43, 35} \cup {9, 10, 11, 12, 13, 32} \cup (0..25)

BadAction(action) ==
    \/ TOPIC \notin DOMAIN action
    \/ \E c \in DOMAIN action[TOPIC] : action[TOPIC][c] \in ForbiddenInTopic
    \/ Len(action[TOPIC]) > 128

\* The action entries of a record: the items of its device_actions list, held
\* as a list or as JSON text, that are dicts of strings.
EntriesOf(global_device) ==
    LET attrs == global_device.device_attributes
        raw == IF attrs # None /\ DEVICE_ACTIONS \in DOMAIN The(attrs)
               THEN The(attrs)[DEVICE_ACTIONS] ELSE JNull
        Entries(items) ==
            [i \in DOMAIN items |->
                IF IsListOfStrDicts(<<items[i]>>) THEN Some(StrDicts(<<items[i]>>)[1])
                ELSE None]
        Value(loaded) == Entries(IF loaded.type = "list" THEN loaded.val ELSE <<>>)
        Decoded(r) == Value(IF r.ok THEN r.val ELSE raw)
    IN  IF raw.type = "str" THEN Decoded(json_loads(raw.val)) ELSE Value(raw)

IsBadEntry(entry) == entry # None /\ BadAction(The(entry))
IsGoodEntry(entry) == entry # None /\ ~BadAction(The(entry))

HasBadAction(global_device) ==
    \E entry \in Range(EntriesOf(global_device)) : IsBadEntry(entry)

\* C9: a record with one action that lacks a topic key, or whose topic holds
\* '+', '#', whitespace or a control character 0..0x19, or is longer than 128
\* characters, is excluded whole, whatever its other actions; no action of
\* such a kind is in a resolved scene.
C9_BadTopicExcludesRecord ==
    /\ \A i \in Kept : ~HasBadAction(Record(i))
    /\ \A j \in DOMAIN scenes :
          \A a \in DOMAIN scenes[j].device_actions :
              ~BadAction(scenes[j].device_actions[a])

\* get_scenes returned without a record that passed the filters and holds a
\* bad action after a valid one.
C9_Witness ==
    /\ gs_pc = "returned"
    /\ \E i \in Processed :
          /\ PassesFilters(Record(i))
          /\ i \notin Kept
          /\ LET entries == EntriesOf(Record(i))
             IN  /\ Len(entries) >= 2
                 /\ IsGoodEntry(entries[1])
                 /\ \E a \in 2..Len(entries) : IsBadEntry(entries[a])

\* C10: every device action of every scene get_scenes returns has a non-empty
\* topic.
C10_NoEmptyTopic ==
    \A j \in DOMAIN scenes :
        \A a \in DOMAIN scenes[j].device_actions :
            scenes[j].device_actions[a][TOPIC] # <<>>

\* The device_actions attribute of a record holds no action list: it is
\* absent, empty (an empty str or list), not a list, a JSON text that cannot
\* be parsed, or a JSON text of something that is no list or of an empty list.
LacksActions(global_device) ==
    LET attrs == global_device.device_attributes
        raw == IF attrs # None /\ DEVICE_ACTIONS \in DOMAIN The(attrs)
               THEN The(attrs)[DEVICE_ACTIONS] ELSE JNull
        NoList(r) == ~r.ok \/ r.val.type # "list" \/ r.val.val = <<>>
    IN  \/ raw = JNull
        \/ raw.type \notin {"str", "list"}
        \/ raw.type = "list" /\ raw.val = <<>>
        \/ raw.type = "str" /\ raw.val = <<>>
        \/ raw.type = "str" /\ raw.val # <<>> /\ NoList(json_loads(raw.val))

\* C11: every SceneDevice get_scenes returns has at least one device action;
\* a record whose device_actions attribute is absent, empty, an empty list,
\* not a list or an unparsable JSON text is not in the result, and get_scenes
\* does not raise.
C11_ScenesHaveActions ==
    /\ gs_pc # "raised"
    /\ \A j \in DOMAIN scenes : Len(scenes[j].device_actions) >= 1
    /\ \A i \in Kept : ~LacksActions(Record(i))

\* get_scenes returned a scene although the snapshot holds a record that
\* passes the filters and whose device_actions is the JSON text of an empty
\* list.
C11_Witness ==
    /\ gs_pc = "returned"
    /\ scenes # <<>>
    /\ \E i \in Processed :
          /\ PassesFilters(Record(i))
          /\ Record(i).device_attributes = Attrs(JStr(JsonEmptyList))
          /\ i \notin Kept

\* ---------------------------------------------------- handler, continued
\* C12: the device count the confirmation reports is the sum of
\* len(device_actions) over the resolved targets, and a dispatch of these
\* targets that ran to completion has issued exactly that many publishes.
C12_CountEqualsPublishes ==
    (answer # None /\ IsConfirmation(The(answer))) =>
        /\ The(answer).device_count = Len(Flatten(The(parameters).targets))
        /\ mqtt_task = "done" => Len(published) = The(answer).device_count

\* C13: in the success path the confirmation and the publishes are two
\* independent tasks.  The handler has returned as soon as they exist; the
\* text handed to the response task is the rendering of the Parameters and is
\* what the task sends, whatever the state of the publishes (none yet, some,
\* all, failed, cancelled); and each task can take its next step whatever
\* the state of the other.
C13_TasksIndependent ==
    /\ (response_task # "none" \/ mqtt_task # "none") => pc = "returned"
    /\ response_task # "none" =>
          answer = Some(_render_response("SCENE_APPLY", The(parameters)))
    /\ response_task \in {"sending", "done", "failed"} =>
          responses = <<The(answer)>>
    /\ response_task = "scheduled" => ENABLED ResponseTaskStart
    /\ response_task = "sending" => ENABLED ResponseTaskDone
    /\ mqtt_task = "scheduled" => ENABLED MqttTaskStart
    /\ mqtt_task = "publishing" => ENABLED PublishComplete

\* The confirmation was sent and its send completed although a publish of
\* the same call failed.
C13_Witness ==
    /\ response_task = "done"
    /\ mqtt_task = "failed"
    /\ responses = <<The(answer)>>
    /\ IsConfirmation(responses[1])

\* C14: for an intent whose type is not supported, the one response is the
\* generic "I'm not sure how to handle that request.", awaited by
\* process_request itself; no Parameters are built (no scene is resolved), no
\* task is added and nothing is published.
C14_UnsupportedIntentFallback ==
    (request # None
     /\ The(request).classified_intent.intent_type # "SCENE_APPLY") =>
        /\ responses = <<FallbackText>>
        /\ parameters = None
        /\ response_task = "none"
        /\ mqtt_task = "none"
        /\ published = <<>>

\* A DEVICE_ON intent was handled to its end while the snapshot holds a
\* scene.
C14_Witness ==
    /\ pc = "returned"
    /\ The(request).classified_intent.intent_type = "DEVICE_ON"
    /\ global_devices # <<>>
    /\ responses = <<FallbackText>>

\* The fixed texts of the skill in which the word "scene" does not occur.
TextsWithoutScene ==
    {FallbackText, Text("Sorry, I couldn't process your request.")}

\* C15: a SYSTEM_HELP intent gets exactly one response, a help text that
\* mentions scenes (the answer of a dedicated help handler, not the generic
\* fallback), and no device command is published.
C15_HelpHandler ==
    (request # None
     /\ The(request).classified_intent.intent_type = "SYSTEM_HELP") =>
        /\ Len(ResponsesIssued) = 1
        /\ ResponsesIssued[1] \notin TextsWithoutScene
        /\ published = <<>>

\* The templates _load_templates requires.
RequiredTemplates ==
    {template_mappings[i].template_name : i \in DOMAIN template_mappings}

\* C16: when a required template cannot be located, construction aborts: a
\* constructed skill has found every required template and holds it in
\* intent_to_template, a construction that met a missing template has ended
\* in an error, and only a constructed skill handles an intent.
C16_MissingTemplateAbortsConstruction ==
    /\ init_pc = "ready" =>
          /\ \A n \in RequiredTemplates : template_env[n] = "found"
          /\ templates = intent_to_template
    /\ (init_pc # "new" /\ \E n \in RequiredTemplates : template_env[n] # "found")
          => init_pc = "aborted"
    /\ pc # "idle" => init_pc = "ready"

\* Construction has aborted on a template that is not found.
C16_Witness ==
    /\ init_pc = "aborted"
    /\ \E n \in RequiredTemplates : template_env[n] = "TemplateNotFound"
    /\ pc = "idle"

\* The publish calls that were issued and have not ended.
InFlight == Len(published) - completed

\* C18: within one dispatch at most one publish is in flight at any time, and
\* one is in flight exactly while the task waits at its `await publish`: the
\* publish for the next action is issued only after the one before it ended.
C18_OnePublishInFlight ==
    /\ InFlight \in {0, 1}
    /\ InFlight = 1 <=> mqtt_task = "publishing"

\* The second publish of a dispatch is in flight and the first has completed.
C18_Witness ==
    /\ mqtt_task = "publishing"
    /\ Len(published) = 2
    /\ completed = 1

\* C19: at every point of a dispatch, also after a publish failure or a
\* cancellation, the commands published so far are a prefix of the flattened
\* resolved action list, each action attempted at most once.
C19_PublishedIsPrefix ==
    LET actions == IF parameters = None THEN <<>>
                   ELSE Flatten(The(parameters).targets)
    IN  /\ Len(published) <= Len(actions)
        /\ \A i \in DOMAIN published :
              /\ published[i].topic = ExpectedPublish(actions[i]).topic
              /\ published[i].payload = ExpectedPublish(actions[i]).payload


\* ------------------------------------------- device_actions as list or text
\* The list passes the checks of from_global_device and of the validator: it
\* is not empty and every action has a topic without forbidden characters,
\* of at most MAX_TOPIC_LENGTH characters.
ValidActionList(actions) ==
    /\ actions # <<>>
    /\ \A i \in DOMAIN actions : ActionCheck(StrDicts(actions)[i]) = "ok"

\* C17: for every valid action list, resolving the record whose
\* device_actions attribute is the JSON text of the list yields a SceneDevice,
\* and it is the SceneDevice (same name, room and actions, in the same order)
\* that resolving the record that holds the list itself yields.
C17_JsonTextRoundTrips ==
    (ValidActionList(rt_actions) /\ rt_from_list # None /\ rt_from_text # None)
        => /\ The(rt_from_text).ok
           /\ The(rt_from_text) = The(rt_from_list)

\* Both records of a valid list of two actions are resolved; the list holds
\* a payload with '"' and '\' and one with control characters and characters
\* beyond ASCII, which the text holds as escapes.
C17_Witness ==
    /\ ValidActionList(rt_actions)
    /\ Len(rt_actions) = 2
    /\ rt_from_list # None
    /\ rt_from_text # None
    /\ \E i \in 1..2 : rt_actions[i].val[TOPIC].val = <<92, 34>>
    /\ \E i \in 1..2 : rt_actions[i].keys = <<PAYLOAD, TOPIC>>
    /\ The(rt_from_text).scene.device_actions[1] = StrDicts(rt_actions)[1]
    /\ The(rt_from_text).scene.device_actions[2] = StrDicts(rt_actions)[2]


\* -------------------------------------------------- two concurrent calls
\* The publish calls of the stream that call c made, in stream order.
RECURSIVE Projection(_, _)
Projection(calls_stream, c) ==
    IF calls_stream = <<>> THEN <<>>
    ELSE (IF Head(calls_stream).call = c
          THEN <<[topic |-> Head(calls_stream).publish.topic,
                  payload |-> Head(calls_stream).publish.payload]>>
          ELSE <<>>)
         \o Projection(Tail(calls_stream), c)

\* What a call of process_request resolves for its own request.
OwnParameters(c) ==
    process_request(The(calls[c].request), global_devices).parameters

\* C20: when two intents are handled concurrently, each call keeps the
\* Parameters it resolved for its own request (the other call adds, removes
\* or changes none of its targets, names or rooms), and once its dispatch
\* has run to completion the interleaved publish stream, projected onto the
\* call, is exactly the call's own resolved actions, in order.
C20_CallsIndependent ==
    \A c \in Calls :
        /\ calls[c].request # None => calls[c].parameters = OwnParameters(c)
        /\ calls[c].mqtt_task = "done" =>
               LET actions == Flatten(The(calls[c].parameters).targets)
               IN  Projection(stream, c)
                   = [i \in DOMAIN actions |-> ExpectedPublish(actions[i])]


\* ----------------------------------------------------------- dispatcher
\* The action has no topic key or its topic is "".
TopicMissingOrEmpty(device_action) ==
    TOPIC \notin DOMAIN device_action \/ Len(device_action[TOPIC]) = 0

\* The actions with a topic, in the order of the flattened targets.
ActionsWithTopic ==
    LET WithTopic(device_action) == ~TopicMissingOrEmpty(device_action)
    IN  SelectSeq(Flatten(The(parameters).targets), WithTopic)

\* The (topic, payload) of the publish calls made so far.
PublishedCommands ==
    [i \in DOMAIN published |->
        [topic |-> published[i].topic, payload |-> published[i].payload]]

\* C21: an action that reaches the dispatcher with a missing or empty topic
\* is skipped: no publish is made for it, the task does not end with an
\* exception because of it (a task fails only at a publish it made), and the
\* other actions of that scene and of later scenes are published in order,
\* all of them once the dispatch has run to completion.
C21_MissingTopicSkipped ==
    /\ \A i \in DOMAIN published : Len(published[i].topic) > 0
    /\ mqtt_task = "failed" => published # <<>>
    /\ mqtt_task \in {"publishing", "done", "failed", "cancelled"} =>
           /\ Len(published) <= Len(ActionsWithTopic)
           /\ \A i \in DOMAIN published :
                  PublishedCommands[i] = ExpectedPublish(ActionsWithTopic[i])
    /\ mqtt_task = "done" => Len(published) = Len(ActionsWithTopic)

\* A completed dispatch of two scenes, the first of which starts with an
\* action whose topic is empty: the rest of that scene and the later scene
\* were published.
C21_Witness ==
    /\ mqtt_task = "done"
    /\ Len(The(parameters).targets) = 2
    /\ TopicMissingOrEmpty(The(parameters).targets[1].device_actions[1])
    /\ Len(The(parameters).targets[1].device_actions) = 2
    /\ Len(published) = Len(Flatten(The(parameters).targets)) - 1
    /\ Len(published) >= 2


\* ------------------------------------------------------ resolver, continued
\* C22 (as stated): a record's action entry without a payload key is, in the
\* SceneDevice converted from the record, an action with payload "ON".
C22_PayloadDefaultedAtResolution ==
    \A j \in DOMAIN scenes :
        LET Defaulted(entries) ==
                \A a \in DOMAIN scenes[j].device_actions :
                    (entries[a] # None /\ PAYLOAD \notin DOMAIN The(entries[a]))
                        => /\ PAYLOAD \in DOMAIN scenes[j].device_actions[a]
                           /\ scenes[j].device_actions[a][PAYLOAD] = ON
        IN  Defaulted(EntriesOf(Record(kept[j])))

\* C22 (amended): conversion returns every action entry as the record holds
\* it; an entry without a payload key is, in the SceneDevice, an action
\* without a payload key.
C22_PayloadAbsentAfterResolution ==
    \A j \in DOMAIN scenes :
        LET Unchanged(entries) ==
                /\ Len(entries) = Len(scenes[j].device_actions)
                /\ \A a \in DOMAIN entries :
                       /\ entries[a] # None
                       /\ scenes[j].device_actions[a] = The(entries[a])
                       /\ PAYLOAD \notin DOMAIN The(entries[a])
                              => PAYLOAD \notin DOMAIN scenes[j].device_actions[a]
        IN  Unchanged(EntriesOf(Record(kept[j])))

\* get_scenes returned a scene with an action that has a topic and no
\* payload, from a record held as a list and from one held as JSON text.
C22_Witness ==
    /\ gs_pc = "returned"
    /\ \E j \in DOMAIN scenes :
           /\ Record(kept[j]).device_attributes = ListAttrs(<<TopicOnly(t1), Action(t2, Fifty)>>)
           /\ DOMAIN scenes[j].device_actions[1] = {TOPIC}
    /\ \E j \in DOMAIN scenes :
           /\ Record(kept[j]).device_attributes = Attrs(JStr(JsonTwoActions))
           /\ DOMAIN scenes[j].device_actions[2] = {TOPIC}


\* ---------------------------------------------------- dispatcher, continued
\* C23: the command published for a resolved action goes to the action's
\* topic; its payload is "ON" when the action carries no payload and exactly
\* the action's payload when it carries one.  (While a publish is pending,
\* the action at position mqtt_k of the flattened targets is the one it was
\* made for, and it is the last of the publish calls.)
C23_PublishedPayload ==
    mqtt_task = "publishing" =>
        LET device_action == Flatten(The(parameters).targets)[mqtt_k]
            command == published[Len(published)]
        IN  /\ command.topic = device_action[TOPIC]
            /\ PAYLOAD \notin DOMAIN device_action => command.payload = ON
            /\ PAYLOAD \in DOMAIN device_action
                   => command.payload = device_action[PAYLOAD]

\* The publish of the second action of a scene is pending: the first action
\* has no payload and was published with "ON", the second carries "50" and
\* is published with "50".
C23_Witness ==
    /\ mqtt_task = "publishing"
    /\ mqtt_k = 2
    /\ The(parameters).targets[1].device_actions[1] = StrDicts(<<TopicOnly(t1)>>)[1]
    /\ The(parameters).targets[1].device_actions[2] = StrDicts(<<Action(t2, Fifty)>>)[1]
    /\ Len(published) = 2
    /\ published[1].payload = ON
    /\ published[2].payload = Fifty


\* ------------------------------------------------------ resolver, continued
\* C24: the list get_scenes builds keeps the order of the snapshot: its j-th
\* scene comes from the j-th of the records that yielded a scene, these
\* records are in snapshot order, and no record yields more than one scene.
C24_SnapshotOrderKept ==
    /\ Len(scenes) = Len(kept)
    /\ \A a, b \in DOMAIN kept : a < b => kept[a] < kept[b]
    /\ \A j \in DOMAIN scenes :
           /\ kept[j] \in Processed
           /\ scenes[j].name = Record(kept[j]).name
           /\ scenes[j].room = Record(kept[j]).room

\* get_scenes returned two scenes of different names from a snapshot of two
\* records.
C24_Witness ==
    /\ gs_pc = "returned"
    /\ Len(scenes) = 2
    /\ scenes[1].name # scenes[2].name
    /\ scenes[1].name = Record(1).name
    /\ scenes[2].name = Record(2).name


\* ------------------------------------------- a call and registry refreshes
\* What the call resolves from the snapshot its resolution read.
ResolvedFromSnapshotRead ==
    process_request(The(request), The(snapshot_read)).parameters

\* C25: a registry refresh while an intent is handled never changes the
\* intent's commands: the Parameters of the call stay what its request
\* resolves to on the one snapshot the resolution read, whatever
\* self.global_devices holds afterwards, the commands published so far are
\* the first of the actions resolved from that snapshot, in order, and a
\* dispatch that ran to completion has published exactly these actions.
C25_RefreshChangesNoCommand ==
    request # None =>
        LET Same(own) ==
                /\ parameters = own
                /\ own # None /\ mqtt_task # "none" =>
                       LET actions == Flatten(The(own).targets)
                       IN  /\ Len(published) <= Len(actions)
                           /\ \A i \in DOMAIN published :
                                  PublishedCommands[i] = ExpectedPublish(actions[i])
                           /\ mqtt_task = "done" => Len(published) = Len(actions)
        IN  Same(ResolvedFromSnapshotRead)

\* C25, for the actions that have a topic: the same, with the actions whose
\* topic is empty left out of what is expected.
RefreshChangesNoCommandWithTopic ==
    request # None =>
        LET Same(own) ==
                /\ parameters = own
                /\ own # None /\ mqtt_task # "none" =>
                       /\ Len(published) <= Len(ActionsWithTopic)
                       /\ \A i \in DOMAIN published :
                              PublishedCommands[i] = ExpectedPublish(ActionsWithTopic[i])
                       /\ mqtt_task = "done"
                              => Len(published) = Len(ActionsWithTopic)
        IN  Same(ResolvedFromSnapshotRead)

\* A dispatch ran to completion after the registry was replaced by one from
\* which the request resolves other targets.
RefreshedDuringDispatch ==
    /\ mqtt_task = "done"
    /\ published # <<>>
    /\ global_devices # The(snapshot_read)
    /\ process_request(The(request), global_devices).parameters # parameters


\* ----------------------------------------------------- handler, continued
\* The request names the record's scene: it carries no device entity, or a
\* device entity of type scene whose value is the record's name up to case.
NamedByRequest(global_device) ==
    LET device_entities == The(request).classified_intent.entities.device
    IN  \/ device_entities = <<>>
        \/ \E e \in DOMAIN device_entities :
               /\ device_entities[e].metadata = Some([device_type |-> "scene"])
               /\ SameIgnoringCase(device_entities[e].normalized_value,
                                   global_device.name)

\* C26: when a SCENE_APPLY intent carries no room entity, Parameters.rooms
\* holds the originating room and the room is no filter: the targets are the
\* scenes of the convertible records, of any room, that the request names
\* (all of them when it names none), and their dispatch is handed to a task.
C26_OriginatingRoomNotAFilter ==
    (/\ request # None
     /\ The(request).classified_intent.intent_type = "SCENE_APPLY"
     /\ The(request).classified_intent.entities.room = <<>>)
    => LET targets == The(parameters).targets
           Resolved(i) ==
               LET Among(r) == r.ok /\ \E t \in DOMAIN targets : targets[t] = r.scene
               IN  Among(from_global_device(global_devices[i]))
       IN  /\ The(parameters).rooms = <<The(request).client_request.room>>
           /\ \A i \in DOMAIN global_devices :
                  NamedByRequest(global_devices[i]) /\ Convertible(global_devices[i])
                      => Resolved(i)
           /\ \A t \in DOMAIN targets :
                  \E i \in DOMAIN global_devices :
                      /\ NamedByRequest(global_devices[i])
                      /\ targets[t].name = global_devices[i].name
                      /\ targets[t].room = global_devices[i].room
           /\ targets # <<>> => mqtt_task # "none"

\* An intent from the living room without a room entity resolved a scene of
\* the bedroom and a scene without a room, and their commands were published.
C26_Witness ==
    /\ request # None
    /\ The(request).classified_intent.intent_type = "SCENE_APPLY"
    /\ The(request).classified_intent.entities.room = <<>>
    /\ The(request).client_request.room = "living room"
    /\ The(parameters).rooms = <<"living room">>
    /\ Len(The(parameters).targets) = 2
    /\ The(parameters).targets[1].room = Some("bedroom")
    /\ The(parameters).targets[2].room = None
    /\ mqtt_task = "done"
    /\ Len(published) = 2


\* ------------------------------------------------ the handler, fair runs
\* A SCENE_APPLY intent was handled and resolved at least one target.
ResolvedTargets ==
    /\ request # None
    /\ The(request).classified_intent.intent_type = "SCENE_APPLY"
    /\ parameters # None
    /\ The(parameters).targets # <<>>

\* The confirmation was sent and its task has ended.
ConfirmationSent ==
    /\ response_task = "done"
    /\ Len(responses) = 1
    /\ IsConfirmation(responses[1])

\* C27: when every publish and the response send complete without error and
\* nothing is cancelled, a SCENE_APPLY intent that resolves at least one
\* target eventually has every one of its device actions published and its
\* confirmation sent.
C27_EventuallyAllPublished ==
    ResolvedTargets
        ~> (/\ ResolvedTargets
            /\ mqtt_task = "done"
            /\ Len(published) = Len(Flatten(The(parameters).targets))
            /\ completed = Len(published)
            /\ ConfirmationSent)

\* C27, for the actions that have a topic: eventually the dispatch has ended,
\* every resolved action with a non-empty topic is published and the
\* confirmation is sent.
EventuallyAllWithTopicPublished ==
    ResolvedTargets
        ~> (/\ ResolvedTargets
            /\ mqtt_task = "done"
            /\ Len(published) = Len(ActionsWithTopic)
            /\ completed = Len(published)
            /\ ConfirmationSent)


\* ------------------------------------------------------ resolver, continued
\* The record has an action entry whose topic holds '$'.
HasDollarTopic(global_device) ==
    \E entry \in Range(EntriesOf(global_device)) :
        /\ entry # None
        /\ TOPIC \in DOMAIN The(entry)
        /\ 36 \in Range(The(entry)[TOPIC])

\* C28: a record with an action whose topic holds the character '$' is
\* excluded from the result of get_scenes, as one with '+' or '#' is: no
\* record kept has such an action and no returned scene has such a topic.
C28_DollarTopicExcluded ==
    /\ \A i \in Kept : ~HasDollarTopic(Record(i))
    /\ \A j \in DOMAIN scenes :
           \A a \in DOMAIN scenes[j].device_actions :
               36 \notin Range(scenes[j].device_actions[a][TOPIC])

\* get_scenes returned the scene of one record and not that of another
\* record, which passed the filters and holds the topic "$SYS" between two
\* valid actions.
C28_Witness ==
    /\ gs_pc = "returned"
    /\ Len(global_devices) = 2
    /\ \E i \in Processed :
           /\ PassesFilters(Record(i))
           /\ HasDollarTopic(Record(i))
           /\ i \notin Kept
    /\ Len(scenes) = 1

=========================================================================
